---------------------------- MODULE Spec2Model ----------------------------
(***************************************************************************)
(* A model of src/main.c, an Asteroids game written for SDL2: main's       *)
(* start-up and loop, handle_input, fire_bullet, update_game, setup_level, *)
(* spawn_asteroid and wrap_coordinates.                                    *)
(*                                                                         *)
(* Numbers.  The C floats are modelled in fixed point: a length is an      *)
(* integer number of 1/Scale pixels (Scale = 100, the grain of the         *)
(* asteroid velocities, ((rand() % 200) - 100) / 100.0f), an angle is an   *)
(* integer number of degrees, and cosf/sinf are read from a table of       *)
(* thousandths.  Products are cut toward zero.  Float rounding is not      *)
(* modelled.                                                               *)
(*                                                                         *)
(* rand().  srand(time(0)) fixes the whole sequence rand() returns.  The   *)
(* model draws that sequence when initialize runs: rnd is a cycle of       *)
(* MaxDraws draws and rnd_i the place in it; every spawn_asteroid that     *)
(* takes a slot, and every candidate position of setup_level, consumes one *)
(* draw.  The asteroid's rotation and its vertex list are drawn by the     *)
(* code as well; update_game never reads them to decide anything, and they *)
(* are left out of the state.                                              *)
(*                                                                         *)
(* Time.  now is SDL_GetTicks() in milliseconds; every loop iteration      *)
(* takes dt of them (SDL_Delay(16) plus the work and the vsync wait).      *)
(***************************************************************************)
EXTENDS Integers, Sequences, FiniteSets, TLC

\* ------------------------------------------------------------ constants
SCREEN_WIDTH == 800
SCREEN_HEIGHT == 600
SHIP_SIZE == 20
SHIP_TURN_SPEED == 5
BULLET_SPEED == 7
MAX_BULLETS == 10
MAX_ASTEROIDS == 50
RESPAWN_INVINCIBILITY == 180
\* SHIP_FRICTION 0.995f, in thousandths
SHIP_FRICTION == 995
\* g_bullets[i].lifetime = 60
BULLET_LIFETIME == 60
\* SDL_GetTicks() - last_shot > 200
FIRE_COOLDOWN == 200
\* hypotf(...) < 200.0f in setup_level
SAFE_DISTANCE == 200
\* g_lives = 3 in main
START_LIVES == 3
\* units per pixel: velocities are drawn in hundredths of a pixel
Scale == 100
\* the table of cosines is in thousandths
Milli == 1000

\* SHIP_ACCELERATION 0.1f, in units
SHIP_ACCELERATION == Scale \div 10
W == SCREEN_WIDTH * Scale
H == SCREEN_HEIGHT * Scale
\* SHIP_SIZE*4, the distance outside the screen at which setup_level spawns
SPAWN_MARGIN == SHIP_SIZE * 4 * Scale

\* --------------------------------------------------------------- bounds
\* loop iterations explored
MaxTicks == 600
\* length of the cycle of draws that stands for the sequence of rand()
MaxDraws == 2
\* the levels the level-transition specification starts from
MaxLevel == 49
\* loop iterations the level-transition specification runs
LevelTicks == 2
\* the loop iterations in which the window can be closed
QuitTicks == 20

\* per-iteration durations in ms: SDL_Delay(16) alone, and a slow frame
TickMs == {16, 50}
\* the key states the player holds
KeySets == {{}, {"space"}, {"left", "up", "space"}, {"right", "space"}}
\* the draws of rand(): edge and side are rand() % 2, pos is the rand() that
\* is reduced % SCREEN_WIDTH or % SCREEN_HEIGHT, vx and vy are rand() % 200
PosDraws == {[edge |-> 1, side |-> 0, pos |-> 400], [edge |-> 0, side |-> 0, pos |-> 300]}
VelDraws == {[vx |-> 100, vy |-> 0], [vx |-> 100, vy |-> 199]}
Draws == {[edge |-> p.edge, side |-> p.side, pos |-> p.pos, vx |-> v.vx, vy |-> v.vy] :
            p \in PosDraws, v \in VelDraws}
\* the outcomes of initialize: success, or the call that failed
InitOutcomes == {"ok", "SDL_Init", "Mix_OpenAudio", "SDL_CreateWindow", "SDL_CreateRenderer"}

Slots == 0 .. (MAX_ASTEROIDS - 1)
BSlots == 0 .. (MAX_BULLETS - 1)

VARIABLES
  pc,            \* where main is: "start", "loop" (the while test), "update", "exited"
  exit_code,     \* main's return value, -1 while it runs
  init_ok,       \* what initialize returned, -1 before it ran
  cleaned,       \* cleanup has run
  is_running,    \* main's is_running
  g_ship, g_bullets, g_asteroids,
  g_score, g_lives, g_level, g_game_over,
  now,           \* SDL_GetTicks()
  last_shot,     \* handle_input's static last_shot
  dt,            \* how long one loop iteration takes
  keys,          \* the keys held down
  rnd, rnd_i,    \* the draws of rand() and the next one
  n_ticks,       \* update_game calls so far
  n_setups,      \* setup_level calls so far
  fire_attempt,  \* the last handle_input called fire_bullet
  fire_created,  \* ... and fire_bullet activated a slot
  last_created,  \* SDL_GetTicks() at the last fire that created a bullet, -1 if none
  inv_start,     \* the ship's invincible_timer when the last update_game began
  hits,          \* the bullet hits of the last update_game, in order
  ship_hits,     \* the ship hits of the last update_game, in order
  spawn_log,     \* the spawn_asteroid calls of the last action, in order
  setup_log,     \* what the last setup_level did, <<>> if the last action ran none
  wrap_in, wrap_out  \* an argument of wrap_coordinates and its result

vars == <<pc, exit_code, init_ok, cleaned, is_running, g_ship, g_bullets, g_asteroids,
          g_score, g_lives, g_level, g_game_over, now, last_shot, dt, keys, rnd, rnd_i,
          n_ticks, n_setups, fire_attempt, fire_created, last_created, inv_start,
          hits, ship_hits, spawn_log, setup_log, wrap_in, wrap_out>>

\* -------------------------------------------------------------- helpers
Abs(a) == IF a < 0 THEN -a ELSE a

\* a / b cut toward zero, b > 0
Trunc(a, b) == IF a >= 0 THEN a \div b ELSE -((-a) \div b)

Min(S) == CHOOSE m \in S : \A n \in S : m <= n

\* cos of a multiple of 5 degrees, in thousandths
CosTable ==
  << 1000, 996, 985, 966, 940, 906, 866, 819, 766, 707, 643, 574, 500, 423, 342, 259,
     174, 87, 0, -87, -174, -259, -342, -423, -500, -574, -643, -707, -766, -819, -866,
     -906, -940, -966, -985, -996, -1000, -996, -985, -966, -940, -906, -866, -819, -766,
     -707, -643, -574, -500, -423, -342, -259, -174, -87, 0, 87, 174, 259, 342, 423, 500,
     574, 643, 707, 766, 819, 866, 906, 940, 966, 985, 996 >>

cosf(deg) == CosTable[((deg % 360) \div 5) + 1]
sinf(deg) == cosf(deg - 90)

\* hypotf(dx, dy) < r, for r up to 200 pixels (the squares stay below 2^31)
HypotLess(dx, dy, r) ==
  /\ Abs(dx) < r
  /\ Abs(dy) < r
  /\ dx * dx + dy * dy < r * r

\* wrap_coordinates
wrap_coordinates(p) ==
  LET x1 == IF p.x < 0 THEN p.x + W ELSE p.x
      x2 == IF x1 > W THEN x1 - W ELSE x1
      y1 == IF p.y < 0 THEN p.y + H ELSE p.y
      y2 == IF y1 > H THEN y1 - H ELSE y1
  IN [x |-> x2, y |-> y2]

ZeroShip == [x |-> 0, y |-> 0, vx |-> 0, vy |-> 0, angle |-> 0, alive |-> 0, invincible_timer |-> 0]
ZeroBullet == [x |-> 0, y |-> 0, vx |-> 0, vy |-> 0, lifetime |-> 0, active |-> 0]
ZeroAsteroid == [x |-> 0, y |-> 0, vx |-> 0, vy |-> 0, size |-> 0, alive |-> 0]

\* the ship setup_level and a respawn make
CentreShip ==
  [x |-> (SCREEN_WIDTH * Scale) \div 2, y |-> (SCREEN_HEIGHT * Scale) \div 2,
   vx |-> 0, vy |-> 0, angle |-> -90, alive |-> 1,
   invincible_timer |-> RESPAWN_INVINCIBILITY]

AliveCount(ast) == Cardinality({i \in DOMAIN ast : ast[i].alive = 1})
ActiveCount(bul) == Cardinality({j \in DOMAIN bul : bul[j].active = 1})
FreeSlots(ast) == {i \in Slots : ast[i].alive = 0}


\* --------------------------------------------------- the game as a value
\* The globals an operation reads and writes, and what it logs.
Game ==
  [ship |-> g_ship, bullets |-> g_bullets, asteroids |-> g_asteroids,
   score |-> g_score, lives |-> g_lives, level |-> g_level, over |-> g_game_over,
   rnd |-> rnd, ri |-> rnd_i, count |-> 0, setups |-> n_setups, hung |-> FALSE,
   hits |-> <<>>, ship_hits |-> <<>>, spawn_log |-> <<>>, setup_log |-> <<>>]

\* ------------------------------------------------------- spawn_asteroid
\* spawn_asteroid with a pool that is full taking the last slot all the same
spawn_asteroid_reuses_last(ast, d, x, y, size) ==
  IF size < 1 THEN [ast |-> ast, slot |-> -1]
  ELSE LET i == IF FreeSlots(ast) = {} THEN MAX_ASTEROIDS - 1 ELSE Min(FreeSlots(ast))
       IN [ast |-> [ast EXCEPT ![i] = [x |-> x, y |-> y,
                                       vx |-> (d.vx % 200) - 100,
                                       vy |-> (d.vy % 200) - 100,
                                       size |-> size, alive |-> 1]],
           slot |-> i]

\* spawn_asteroid without the check of the size
spawn_asteroid_any_size(ast, d, x, y, size) ==
  IF FreeSlots(ast) = {} THEN [ast |-> ast, slot |-> -1]
  ELSE LET i == Min(FreeSlots(ast))
       IN [ast |-> [ast EXCEPT ![i] = [x |-> x, y |-> y,
                                       vx |-> (d.vx % 200) - 100,
                                       vy |-> (d.vy % 200) - 100,
                                       size |-> size, alive |-> 1]],
           slot |-> i]

\* spawn_asteroid on the pool: the pool after it, the next draw, the slot taken
\* (-1 if none).
spawn_asteroid(ast, d, x, y, size) ==
  IF size < 1 THEN [ast |-> ast, slot |-> -1]
  ELSE IF FreeSlots(ast) = {} THEN [ast |-> ast, slot |-> -1]
  ELSE LET i == Min(FreeSlots(ast))
       IN [ast |-> [ast EXCEPT ![i] = [x |-> x, y |-> y,
                                       vx |-> (d.vx % 200) - 100,
                                       vy |-> (d.vy % 200) - 100,
                                       size |-> size, alive |-> 1]],
           slot |-> i]

\* a call of spawn_asteroid, logged
spawn(g, x, y, size) ==
  LET r == spawn_asteroid(g.asteroids, g.rnd[g.ri], x, y, size)
  IN [g EXCEPT !.asteroids = r.ast,
               !.ri = IF r.slot >= 0 THEN (g.ri + 1) % MaxDraws ELSE g.ri,
               !.spawn_log = Append(@, [size |-> size, slot |-> r.slot,
                                        full |-> FreeSlots(g.asteroids) = {},
                                        changed |-> r.ast # g.asteroids])]

\* ---------------------------------------------------------- setup_level
\* the candidate position measured from the centre of the screen instead of
\* from its edges
Candidate_around_centre(d) ==
  IF d.edge % 2 = 0
  THEN [x |-> IF d.side % 2 = 0 THEN W \div 2 - SPAWN_MARGIN ELSE W \div 2 + SPAWN_MARGIN,
        y |-> (d.pos % SCREEN_HEIGHT) * Scale]
  ELSE [x |-> (d.pos % SCREEN_WIDTH) * Scale,
        y |-> IF d.side % 2 = 0 THEN H \div 2 - SPAWN_MARGIN ELSE H \div 2 + SPAWN_MARGIN]

\* the candidate position of one pass of the do-while
Candidate(d) ==
  IF d.edge % 2 = 0
  THEN [x |-> IF d.side % 2 = 0 THEN 0 - SPAWN_MARGIN ELSE W + SPAWN_MARGIN,
        y |-> (d.pos % SCREEN_HEIGHT) * Scale]
  ELSE [x |-> (d.pos % SCREEN_WIDTH) * Scale,
        y |-> IF d.side % 2 = 0 THEN 0 - SPAWN_MARGIN ELSE H + SPAWN_MARGIN]

\* the do-while's condition: the candidate is on top of the player
Rejected(c, ship) == HypotLess(c.x - ship.x, c.y - ship.y, SAFE_DISTANCE * Scale)

\* the do-while: draws until a candidate is accepted. The draws cycle, so after
\* MaxDraws rejections the loop would never end (stuck).
RECURSIVE draw_position(_, _, _, _)
draw_position(ship, r, ri, tries) ==
  LET c == Candidate(r[ri])
  IN IF Rejected(c, ship) /\ tries < MaxDraws
     THEN draw_position(ship, r, (ri + 1) % MaxDraws, tries + 1)
     ELSE [x |-> c.x, y |-> c.y, ri |-> ri, tries |-> tries, stuck |-> Rejected(c, ship)]

\* setup_level asking for one asteroid too few
LevelAsteroids_one_short(level) == level + 2

\* how many asteroids setup_level asks for
LevelAsteroids(level) == level + 3

\* one pass of setup_level's for loop
place(g) ==
  LET p == draw_position(g.ship, g.rnd, g.ri, 0)
      g1 == [g EXCEPT !.ri = p.ri, !.hung = @ \/ p.stuck,
                      !.setup_log[1].retries = @ + p.tries]
  IN spawn(g1, p.x, p.y, 3)

\* passes i .. n-1 of setup_level's for loop
RECURSIVE setup_loop(_, _, _)
setup_loop(g, i, n) ==
  IF i >= n THEN g
  ELSE CHOOSE r \in {setup_loop(h, i + 1, n) : h \in {place(g)}} : TRUE

\* setup_level starting the score again from 0
setup_level_resets_score(g) ==
  setup_loop([g EXCEPT !.ship = CentreShip,
                       !.bullets = [j \in BSlots |-> [g.bullets[j] EXCEPT !.active = 0]],
                       !.asteroids = [i \in Slots |-> [g.asteroids[i] EXCEPT !.alive = 0]],
                       !.score = 0,
                       !.setups = @ + 1,
                       !.setup_log = <<[level |-> g.level, retries |-> 0]>>],
             0, LevelAsteroids(g.level))

\* setup_level: the ship at the centre, both pools cleared, then the asteroids
setup_level(g) ==
  setup_loop([g EXCEPT !.ship = CentreShip,
                       !.bullets = [j \in BSlots |-> [g.bullets[j] EXCEPT !.active = 0]],
                       !.asteroids = [i \in Slots |-> [g.asteroids[i] EXCEPT !.alive = 0]],
                       !.setups = @ + 1,
                       !.setup_log = <<[level |-> g.level, retries |-> 0]>>],
             0, LevelAsteroids(g.level))

\* ---------------------------------------------------------- fire_bullet
\* fire_bullet taking the highest free slot instead of the lowest
fire_bullet_highest_slot(ship, bul) ==
  IF ship.alive = 0 THEN bul
  ELSE LET free == {j \in BSlots : bul[j].active = 0}
       IN IF free = {} THEN bul
          ELSE [bul EXCEPT ![CHOOSE m \in free : \A n \in free : m >= n] =
                  [x |-> ship.x + Trunc((SHIP_SIZE \div 2) * Scale * cosf(ship.angle), Milli),
                   y |-> ship.y + Trunc((SHIP_SIZE \div 2) * Scale * sinf(ship.angle), Milli),
                   vx |-> ship.vx + Trunc(BULLET_SPEED * Scale * cosf(ship.angle), Milli),
                   vy |-> ship.vy + Trunc(BULLET_SPEED * Scale * sinf(ship.angle), Milli),
                   lifetime |-> BULLET_LIFETIME, active |-> 1]]

fire_bullet(ship, bul) ==
  IF ship.alive = 0 THEN bul
  ELSE LET free == {j \in BSlots : bul[j].active = 0}
       IN IF free = {} THEN bul
          ELSE [bul EXCEPT ![Min(free)] =
                  [x |-> ship.x + Trunc((SHIP_SIZE \div 2) * Scale * cosf(ship.angle), Milli),
                   y |-> ship.y + Trunc((SHIP_SIZE \div 2) * Scale * sinf(ship.angle), Milli),
                   vx |-> ship.vx + Trunc(BULLET_SPEED * Scale * cosf(ship.angle), Milli),
                   vy |-> ship.vy + Trunc(BULLET_SPEED * Scale * sinf(ship.angle), Milli),
                   lifetime |-> BULLET_LIFETIME, active |-> 1]]

\* --------------------------------------------------------- handle_input
\* the ship after the arrow keys
steer(ship, k) ==
  LET a1 == IF "left" \in k THEN ship.angle - SHIP_TURN_SPEED ELSE ship.angle
      a2 == IF "right" \in k THEN a1 + SHIP_TURN_SPEED ELSE a1
  IN IF "up" \in k
     THEN [ship EXCEPT !.angle = a2,
                       !.vx = @ + Trunc(SHIP_ACCELERATION * cosf(a2), Milli),
                       !.vy = @ + Trunc(SHIP_ACCELERATION * sinf(a2), Milli)]
     ELSE [ship EXCEPT !.angle = a2]

\* the test that lets the space bar fire
CooldownOver(t, last) == t - last > FIRE_COOLDOWN

\* handle_input after the event loop: the ship, the bullets and last_shot
handle_input(ship, bul, k, t, last) ==
  IF ship.alive = 0
  THEN [ship |-> ship, bullets |-> bul, last_shot |-> last, attempt |-> FALSE]
  ELSE LET s == steer(ship, k)
       IN IF "space" \in k /\ CooldownOver(t, last)
          THEN [ship |-> s, bullets |-> fire_bullet(s, bul), last_shot |-> t, attempt |-> TRUE]
          ELSE [ship |-> s, bullets |-> bul, last_shot |-> last, attempt |-> FALSE]

\* ---------------------------------------------------------- update_game
\* "Update ship"
ship_step(ship) ==
  IF ship.alive = 0 THEN ship
  ELSE LET p == wrap_coordinates([x |-> ship.x + ship.vx, y |-> ship.y + ship.vy])
       IN [ship EXCEPT !.x = p.x, !.y = p.y,
                       !.vx = Trunc(@ * SHIP_FRICTION, Milli),
                       !.vy = Trunc(@ * SHIP_FRICTION, Milli),
                       !.invincible_timer = IF @ > 0 THEN @ - 1 ELSE @]

\* "Update bullets", one slot, a bullet that crosses a screen edge being dropped
bullet_step_dies_at_edge(b) ==
  IF b.active = 0 THEN b
  ELSE LET p == wrap_coordinates([x |-> b.x + b.vx, y |-> b.y + b.vy])
       IN [b EXCEPT !.x = p.x, !.y = p.y, !.lifetime = @ - 1,
                    !.active = IF b.lifetime - 1 <= 0 \/ p.x # b.x + b.vx \/ p.y # b.y + b.vy
                               THEN 0 ELSE @]

\* "Update bullets", one slot
bullet_step(b) ==
  IF b.active = 0 THEN b
  ELSE LET p == wrap_coordinates([x |-> b.x + b.vx, y |-> b.y + b.vy])
       IN [b EXCEPT !.x = p.x, !.y = p.y, !.lifetime = @ - 1,
                    !.active = IF b.lifetime - 1 <= 0 THEN 0 ELSE @]

\* an asteroid, moved
asteroid_step(a) ==
  LET p == wrap_coordinates([x |-> a.x + a.vx, y |-> a.y + a.vy])
  IN [a EXCEPT !.x = p.x, !.y = p.y]

\* the bullet-asteroid test
BulletTouches(b, a) == HypotLess(b.x - a.x, b.y - a.y, a.size * 10 * Scale)

\* the score of a destroyed asteroid, from the size read in slot i
ScoreFor(size) == (4 - size) * 20

\* the body of the bullet-asteroid test for asteroid i and bullet j
bullet_hit(g, i, j) ==
  LET a == g.asteroids[i]
      g1 == [g EXCEPT !.asteroids[i].alive = 0, !.bullets[j].active = 0]
      g2 == IF g1.asteroids[i].size > 1
            THEN LET s1 == spawn(g1, g1.asteroids[i].x, g1.asteroids[i].y,
                                 g1.asteroids[i].size - 1)
                 IN spawn(s1, s1.asteroids[i].x, s1.asteroids[i].y,
                          s1.asteroids[i].size - 1)
            ELSE g1
      born == {k \in Slots : g2.asteroids[k].alive = 1 /\ g1.asteroids[k].alive = 0}
      gain == ScoreFor(g2.asteroids[i].size)
  IN [g2 EXCEPT !.score = @ + gain,
                !.hits = Append(@, [slot |-> i, bullet |-> j, size |-> a.size,
                                    x |-> a.x, y |-> a.y,
                                    free |-> Cardinality(FreeSlots(g1.asteroids)),
                                    kids |-> {[slot |-> k, size |-> g2.asteroids[k].size,
                                               x |-> g2.asteroids[k].x,
                                               y |-> g2.asteroids[k].y] : k \in born},
                                    gain |-> gain])]

\* the ship lies within the collision radius of what slot a holds
Overlaps(ship, a) ==
  HypotLess(ship.x - a.x, ship.y - a.y, (a.size * 8 + SHIP_SIZE \div 2) * Scale)

\* the ship-asteroid test without the test of the invincibility timer
ShipTouches_ignores_timer(ship, a) ==
  /\ ship.alive = 1
  /\ Overlaps(ship, a)

\* the ship-asteroid test, on whatever slot i holds by now
ShipTouches(ship, a) ==
  /\ ship.alive = 1
  /\ ship.invincible_timer <= 0
  /\ Overlaps(ship, a)

\* the body of the ship-asteroid test respawning the ship whatever lives are left
ship_hit_always_respawns(g, i) ==
  [g EXCEPT !.ship = CentreShip, !.lives = g.lives - 1,
            !.ship_hits = Append(@, [slot |-> i, alive |-> g.asteroids[i].alive,
                                     lives |-> g.lives - 1])]

\* the body of the ship-asteroid test respawning the ship without invincibility
ship_hit_respawns_unprotected(g, i) ==
  LET lives == g.lives - 1
      entry == [slot |-> i, alive |-> g.asteroids[i].alive, lives |-> lives]
  IN IF lives <= 0
     THEN [g EXCEPT !.ship.alive = 0, !.lives = lives, !.over = 1,
                    !.ship_hits = Append(@, entry)]
     ELSE [g EXCEPT !.ship = [CentreShip EXCEPT !.invincible_timer = 0], !.lives = lives,
                    !.ship_hits = Append(@, entry)]

\* the body of the ship-asteroid test leaving the ship dead when lives remain
ship_hit_stays_dead(g, i) ==
  LET lives == g.lives - 1
      entry == [slot |-> i, alive |-> g.asteroids[i].alive, lives |-> lives]
  IN [g EXCEPT !.ship.alive = 0, !.lives = lives, !.over = IF lives <= 0 THEN 1 ELSE @,
               !.ship_hits = Append(@, entry)]

\* the body of the ship-asteroid test
ship_hit(g, i) ==
  LET lives == g.lives - 1
      entry == [slot |-> i, alive |-> g.asteroids[i].alive, lives |-> lives]
  IN IF lives <= 0
     THEN [g EXCEPT !.ship.alive = 0, !.lives = lives, !.over = 1,
                    !.ship_hits = Append(@, entry)]
     ELSE [g EXCEPT !.ship = CentreShip, !.lives = lives,
                    !.ship_hits = Append(@, entry)]

\* one pass of the loop over the asteroid slots
visit(g, i) ==
  IF g.asteroids[i].alive = 0 THEN g
  ELSE LET g1 == [g EXCEPT !.count = @ + 1, !.asteroids[i] = asteroid_step(@)]
           touching == {j \in BSlots : g1.bullets[j].active = 1
                                        /\ BulletTouches(g1.bullets[j], g1.asteroids[i])}
           g2 == IF touching = {} THEN g1 ELSE bullet_hit(g1, i, Min(touching))
       IN IF ShipTouches(g2.ship, g2.asteroids[i]) THEN ship_hit(g2, i) ELSE g2

\* the loop over the asteroid slots i .. MAX_ASTEROIDS-1. A pass over a slot
\* that is not alive does nothing, so the loop goes straight to the next slot
\* that is alive when the pass before it has ended. (The set with one element
\* makes TLC compute each pass before it starts the next.)
RECURSIVE asteroid_loop(_, _)
asteroid_loop(g, i) ==
  LET rest == {k \in Slots : k >= i /\ g.asteroids[k].alive = 1}
  IN IF rest = {} THEN g
     ELSE CHOOSE r \in {asteroid_loop(h, Min(rest) + 1) : h \in {visit(g, Min(rest))}} : TRUE

\* the level completion check
LevelDone(g) == g.count = 0 /\ g.over = 0

update_game(g) ==
  LET g1 == [g EXCEPT !.ship = ship_step(@),
                      !.bullets = [j \in BSlots |-> bullet_step(g.bullets[j])],
                      !.count = 0]
  IN CHOOSE r \in {IF LevelDone(g2) THEN setup_level([g2 EXCEPT !.level = @ + 1]) ELSE g2 :
                    g2 \in {asteroid_loop(g1, 0)}} : TRUE

\* ----------------------------------------------------------------- main
\* initialize: 1 on success, 0 when one of its four calls fails
initialize(outcome) == IF outcome = "ok" THEN 1 ELSE 0

\* main returning 0 when initialize failed
FailureExit_zero == 1 - 1

\* what main returns when initialize failed
FailureExit == 1

\* the while test of main never reading is_running
LoopRuns_ignores_quit(running, over) == over = 0

\* the while test of main
LoopRuns(running, over) == running = 1 /\ over = 0

\* ----------------------------------------------------------------- Init
\* the program as main finds it: the globals as their initialisers leave them
InitGame ==
  /\ pc = "start"
  /\ exit_code = -1
  /\ init_ok = -1
  /\ cleaned = FALSE
  /\ is_running = 0
  /\ g_ship = ZeroShip
  /\ g_bullets = [j \in BSlots |-> ZeroBullet]
  /\ g_asteroids = [i \in Slots |-> ZeroAsteroid]
  /\ g_score = 0
  /\ g_lives = START_LIVES
  /\ g_level = 1
  /\ g_game_over = 0
  /\ now = 0
  /\ last_shot = 0
  /\ dt \in TickMs
  /\ keys \in KeySets
  /\ rnd = [k \in 0 .. (MaxDraws - 1) |-> CHOOSE d \in Draws : TRUE]
  /\ rnd_i = 0
  /\ n_ticks = 0
  /\ n_setups = 0
  /\ fire_attempt = FALSE
  /\ fire_created = FALSE
  /\ last_created = -1
  /\ inv_start = 0
  /\ hits = <<>>
  /\ ship_hits = <<>>
  /\ spawn_log = <<>>
  /\ setup_log = <<>>

Init ==
  /\ InitGame
  /\ wrap_in = [x |-> 0, y |-> 0]
  /\ wrap_out = <<>>

\* the globals take the fields of a game value
Store(g) ==
  /\ g_ship' = g.ship
  /\ g_bullets' = g.bullets
  /\ g_asteroids' = g.asteroids
  /\ g_score' = g.score
  /\ g_lives' = g.lives
  /\ g_level' = g.level
  /\ g_game_over' = g.over
  /\ rnd_i' = g.ri
  /\ n_setups' = g.setups
  /\ spawn_log' = g.spawn_log
  /\ setup_log' = g.setup_log

\* -------------------------------------------------------------- actions
\* main up to the loop, initialize having failed: cleanup, return 1
InitializeFails ==
  /\ pc = "start"
  /\ \E outcome \in InitOutcomes :
       /\ initialize(outcome) = 0
       /\ init_ok' = 0
  /\ cleaned' = TRUE
  /\ exit_code' = FailureExit
  /\ pc' = "exited"
  /\ UNCHANGED <<is_running, g_ship, g_bullets, g_asteroids, g_score, g_lives, g_level,
                 g_game_over, now, last_shot, dt, keys, rnd, rnd_i, n_ticks, n_setups,
                 fire_attempt, fire_created, last_created, inv_start, hits, ship_hits,
                 spawn_log, setup_log, wrap_in, wrap_out>>

\* main up to the loop, initialize having succeeded: the globals are reset and
\* setup_level runs
Initialize ==
  /\ pc = "start"
  /\ \E outcome \in InitOutcomes, r \in [0 .. (MaxDraws - 1) -> Draws] :
       /\ initialize(outcome) = 1
       /\ init_ok' = 1
       /\ rnd' = r
       /\ \E g \in {setup_level([Game EXCEPT !.rnd = r, !.ri = 0, !.score = 0,
                                               !.lives = START_LIVES, !.level = 1,
                                               !.over = 0])} :
             /\ ~g.hung
             /\ Store(g)
  /\ is_running' = 1
  /\ pc' = "loop"
  /\ UNCHANGED <<exit_code, cleaned, now, last_shot, dt, keys, n_ticks, fire_attempt,
                 fire_created, last_created, inv_start, hits, ship_hits, wrap_in, wrap_out>>

\* one handle_input: the event loop polls a quit event or none
HandleInput ==
  /\ pc = "loop"
  /\ LoopRuns(is_running, g_game_over)
  /\ n_ticks < MaxTicks
  /\ \E quit \in (IF n_ticks < QuitTicks THEN BOOLEAN ELSE {FALSE}) :
       is_running' = IF quit THEN 0 ELSE is_running
  /\ \E r \in {handle_input(g_ship, g_bullets, keys, now, last_shot)} :
        /\ g_ship' = r.ship
        /\ g_bullets' = r.bullets
        /\ last_shot' = r.last_shot
        /\ fire_attempt' = r.attempt
        /\ fire_created' = (r.bullets # g_bullets)
        /\ last_created' = IF r.bullets # g_bullets THEN now ELSE last_created
  /\ spawn_log' = <<>>
  /\ setup_log' = <<>>
  /\ pc' = "update"
  /\ UNCHANGED <<exit_code, init_ok, cleaned, g_asteroids, g_score, g_lives, g_level,
                 g_game_over, now, dt, keys, rnd, rnd_i, n_ticks, n_setups, inv_start,
                 hits, ship_hits, wrap_in, wrap_out>>

\* one update_game, then render_game and SDL_Delay
UpdateGame ==
  /\ pc = "update"
  /\ \E g \in {update_game(Game)} :
        /\ ~g.hung
        /\ Store(g)
        /\ hits' = g.hits
        /\ ship_hits' = g.ship_hits
  /\ inv_start' = g_ship.invincible_timer
  /\ n_ticks' = n_ticks + 1
  /\ now' = now + dt
  /\ pc' = "loop"
  /\ UNCHANGED <<exit_code, init_ok, cleaned, is_running, last_shot, dt, keys, rnd,
                 fire_attempt, fire_created, last_created, wrap_in, wrap_out>>

\* the while test fails: cleanup, return 0
MainExit ==
  /\ pc = "loop"
  /\ ~LoopRuns(is_running, g_game_over)
  /\ cleaned' = TRUE
  /\ exit_code' = 0
  /\ pc' = "exited"
  /\ UNCHANGED <<init_ok, is_running, g_ship, g_bullets, g_asteroids, g_score, g_lives,
                 g_level, g_game_over, now, last_shot, dt, keys, rnd, rnd_i, n_ticks,
                 n_setups, fire_attempt, fire_created, last_created, inv_start, hits,
                 ship_hits, spawn_log, setup_log, wrap_in, wrap_out>>

Next == InitializeFails \/ Initialize \/ HandleInput \/ UpdateGame \/ MainExit

Spec == Init /\ [][Next]_vars

\* ------------------------------------------- the level-transition specification
\* A game at the head of the loop in which the last asteroid of level g_level
\* was destroyed in the iteration before: the next update_game counts no
\* asteroid and runs setup_level for the next level. The score is one such a
\* game can show; it plays no part in the transition.
LevelInit ==
  /\ pc = "loop"
  /\ exit_code = -1
  /\ init_ok = 1
  /\ cleaned = FALSE
  /\ is_running = 1
  /\ g_ship = [CentreShip EXCEPT !.invincible_timer = 0]
  /\ g_bullets = [j \in BSlots |-> ZeroBullet]
  /\ g_asteroids = [i \in Slots |-> ZeroAsteroid]
  /\ g_level \in 1 .. MaxLevel
  /\ g_score = 60 * (g_level + 3)
  /\ g_lives = START_LIVES
  /\ g_game_over = 0
  /\ dt \in TickMs
  /\ keys \in KeySets
  /\ n_ticks = MaxTicks - LevelTicks
  /\ now = n_ticks * dt
  /\ last_shot = 0
  /\ rnd \in [0 .. (MaxDraws - 1) -> Draws]
  /\ rnd_i = 0
  /\ n_setups = g_level
  /\ fire_attempt = FALSE
  /\ fire_created = FALSE
  /\ last_created = -1
  /\ inv_start = 0
  /\ hits = <<>>
  /\ ship_hits = <<>>
  /\ spawn_log = <<>>
  /\ setup_log = <<>>
  /\ wrap_in = [x |-> 0, y |-> 0]
  /\ wrap_out = <<>>

LevelNext == HandleInput \/ UpdateGame

LevelSpec == LevelInit /\ [][LevelNext]_vars

\* ------------------------------------------- wrap_coordinates on its own
\* coordinates update_game can pass, in units: a position on the screen or on
\* the margin setup_level spawns at, moved by one velocity
WrapXs == {0 - SPAWN_MARGIN - Scale, 0 - Scale, -1, 0, 1, W \div 2, W - Scale, W - 1, W,
           W + 1, W + SPAWN_MARGIN + Scale}
WrapYs == {0 - SPAWN_MARGIN - Scale, 0 - Scale, -1, 0, 1, H \div 2, H - Scale, H - 1, H,
           H + 1, H + SPAWN_MARGIN + Scale}

WrapInit ==
  /\ InitGame
  /\ wrap_in \in [x : WrapXs, y : WrapYs]
  /\ wrap_out = <<>>

\* one call of wrap_coordinates
ApplyWrap ==
  /\ wrap_out = <<>>
  /\ wrap_out' = <<wrap_coordinates(wrap_in)>>
  /\ UNCHANGED <<pc, exit_code, init_ok, cleaned, is_running, g_ship, g_bullets,
                 g_asteroids, g_score, g_lives, g_level, g_game_over, now, last_shot, dt,
                 keys, rnd, rnd_i, n_ticks, n_setups, fire_attempt, fire_created,
                 last_created, inv_start, hits, ship_hits, spawn_log, setup_log, wrap_in>>

WrapNext == ApplyWrap

WrapSpec == WrapInit /\ [][WrapNext]_vars

\* ================================================================ claims
Min2(a, b) == IF a <= b THEN a ELSE b

\* the score the hits of one update_game are worth, by the size each destroyed
\* asteroid had
RECURSIVE SumScores(_)
SumScores(hs) ==
  IF hs = <<>> THEN 0 ELSE (4 - Head(hs).size) * 20 + SumScores(Tail(hs))

\* C1: a bullet that hits an asteroid of size s > 1, the pool having room for
\* two, leaves exactly two new asteroids, both of size s - 1 and both at the
\* parent's position; a hit on an asteroid of size 1 leaves none.
C1_SplitsInTwo ==
  \A k \in 1 .. Len(hits) :
    LET h == hits[k]
    IN h.free >= 2 =>
         IF h.size > 1
         THEN /\ Cardinality(h.kids) = 2
              /\ \A c \in h.kids : c.size = h.size - 1 /\ c.x = h.x /\ c.y = h.y
         ELSE h.kids = {}

\* C2: every step adds to the score (4 - s) * 20 for each asteroid of size s a
\* bullet destroyed in it, and nothing else changes the score.
C2_ScoreBySize ==
  [][g_score' = g_score + (IF pc = "update" THEN SumScores(hits') ELSE 0)]_vars

\* C3: never more than MAX_ASTEROIDS asteroids alive nor more than MAX_BULLETS
\* bullets active, and a spawn_asteroid that finds the pool full changes
\* nothing.
C3_PoolsBounded ==
  /\ AliveCount(g_asteroids) <= MAX_ASTEROIDS
  /\ ActiveCount(g_bullets) <= MAX_BULLETS
  /\ \A k \in 1 .. Len(spawn_log) : spawn_log[k].full => ~spawn_log[k].changed

\* a spawn_asteroid has just found the pool full
C3_Witness ==
  /\ AliveCount(g_asteroids) = MAX_ASTEROIDS
  /\ \E k \in 1 .. Len(spawn_log) : spawn_log[k].full /\ spawn_log[k].slot = -1

\* C4 as stated: an update_game that begins with the invincibility timer above
\* 0 takes no life, does not end the game and leaves the ship alive.
C4_TimerAboveZero ==
  [][(pc = "update" /\ g_ship.invincible_timer > 0) =>
       /\ g_lives' = g_lives
       /\ g_game_over' = g_game_over
       /\ g_ship'.alive = g_ship.alive
       /\ ship_hits' = <<>>]_vars

\* C4: an update_game that begins with the invincibility timer above 1 takes
\* no life, does not end the game and leaves the ship alive.
C4_TimerAboveOne ==
  [][(pc = "update" /\ g_ship.invincible_timer > 1) =>
       /\ g_lives' = g_lives
       /\ g_game_over' = g_game_over
       /\ g_ship'.alive = g_ship.alive
       /\ ship_hits' = <<>>]_vars

\* an update_game that began with the timer above 1 has ended with an asteroid
\* on the ship, and no life was taken
C4_Witness ==
  /\ pc = "loop"
  /\ n_ticks > 0
  /\ inv_start > 1
  /\ ship_hits = <<>>
  /\ g_ship.alive = 1
  /\ \E i \in Slots : g_asteroids[i].alive = 1 /\ Overlaps(g_ship, g_asteroids[i])

\* C5: the update_game that brings g_lives to 0 sets g_game_over and leaves the
\* ship dead without running setup_level or raising the level; once
\* g_game_over is 1 it stays 1, the level stays, and neither setup_level nor
\* update_game runs again.
C5_GameOverIsFinal ==
  [][/\ (g_lives > 0 /\ g_lives' <= 0) =>
          /\ g_lives' = 0
          /\ g_game_over' = 1
          /\ g_ship'.alive = 0
          /\ g_level' = g_level
          /\ n_setups' = n_setups
     /\ g_game_over = 1 =>
          /\ g_game_over' = 1
          /\ g_level' = g_level
          /\ n_setups' = n_setups
          /\ n_ticks' = n_ticks
          /\ pc' = "exited"]_vars

\* main has returned after a game that ended with the last life
C5_Witness ==
  /\ pc = "exited"
  /\ g_game_over = 1
  /\ g_lives = 0
  /\ g_ship.alive = 0
  /\ is_running = 1

\* what a setup_level that has just run leaves, n being the number of asteroids
SetupLeaves(n) ==
  /\ AliveCount(g_asteroids) = n
  /\ \A i \in Slots : g_asteroids[i].alive = 1 =>
       /\ g_asteroids[i].size = 3
       /\ ~HypotLess(g_asteroids[i].x - g_ship.x, g_asteroids[i].y - g_ship.y,
                     SAFE_DISTANCE * Scale)
  /\ g_ship.x = W \div 2
  /\ g_ship.y = H \div 2
  /\ ActiveCount(g_bullets) = 0

\* C6 as stated: setup_level leaves exactly g_level + 3 asteroids alive, all of
\* size 3 and 200 or more from the ship at the centre, and no bullet active.
C6_LevelPlusThree ==
  setup_log # <<>> => SetupLeaves(g_level + 3)

\* C6: setup_level leaves the smaller of g_level + 3 and MAX_ASTEROIDS
\* asteroids alive, all of size 3 and 200 or more from the ship at the centre,
\* and no bullet active.
C6_LevelPlusThreeUpToPool ==
  setup_log # <<>> => SetupLeaves(Min2(g_level + 3, MAX_ASTEROIDS))

\* a level transition has just set up a level that the pool holds whole
C6_Witness ==
  /\ setup_log # <<>>
  /\ g_level = 5
  /\ n_setups = 5
  /\ AliveCount(g_asteroids) = 8
  /\ Len(spawn_log) = 8

\* C7: what wrap_coordinates returns lies in [0, SCREEN_WIDTH) x
\* [0, SCREEN_HEIGHT).
C7_WrapsIntoScreen ==
  \A k \in 1 .. Len(wrap_out) :
    /\ 0 <= wrap_out[k].x /\ wrap_out[k].x < W
    /\ 0 <= wrap_out[k].y /\ wrap_out[k].y < H

\* C8: a fire_bullet with the ship alive activates the lowest inactive slot
\* with lifetime 60 and leaves every other slot as it was; with no slot
\* inactive it changes nothing.
C8_FiresLowestSlot ==
  [][(pc = "loop" /\ pc' = "update" /\ fire_attempt') =>
       LET free == {j \in BSlots : g_bullets[j].active = 0}
       IN IF free = {} THEN g_bullets' = g_bullets
          ELSE /\ g_bullets'[Min(free)].active = 1
               /\ g_bullets'[Min(free)].lifetime = BULLET_LIFETIME
               /\ \A j \in BSlots \ {Min(free)} : g_bullets'[j] = g_bullets[j]
               /\ ActiveCount(g_bullets') = ActiveCount(g_bullets) + 1]_vars

\* fire_bullet has just taken slot 3, the slots below it being active and the
\* slot above it not
C8_Witness ==
  /\ pc = "update"
  /\ fire_created
  /\ \A j \in 0 .. 3 : g_bullets[j].active = 1
  /\ g_bullets[3].lifetime = BULLET_LIFETIME
  /\ g_bullets[4].active = 0

\* C9: with the fire key held, the ship alive and a bullet slot free,
\* handle_input creates a bullet exactly when 200 ms or more have passed since
\* the last fire that created a bullet, or none was created yet.
C9_FiresAfterCooldown ==
  [][(/\ pc = "loop" /\ pc' = "update"
      /\ "space" \in keys
      /\ g_ship.alive = 1
      /\ \E j \in BSlots : g_bullets[j].active = 0) =>
       (fire_created' <=> (last_created = -1 \/ now - last_created >= FIRE_COOLDOWN))]_vars

\* C10: when initialize fails main runs cleanup and returns nonzero, no
\* setup_level and no update_game having run; when it succeeds main returns 0
\* after cleanup.
C10_ExitCodes ==
  /\ init_ok = 0 =>
       /\ pc = "exited" /\ cleaned /\ exit_code # 0 /\ exit_code # -1
       /\ n_setups = 0 /\ n_ticks = 0
  /\ (pc = "exited" /\ init_ok = 1) => (cleaned /\ exit_code = 0)
  /\ pc # "exited" => exit_code = -1

\* main has returned after initialize failed
C10_Witness ==
  /\ pc = "exited"
  /\ init_ok = 0
  /\ cleaned
  /\ exit_code = 1

\* C11: while no quit was polled and the game is not over the loop goes on to
\* the next update_game; a quit polled by handle_input is followed by that
\* iteration's update_game and nothing more, a game over by no further
\* iteration, and in both cases main is then free to return, which is the only
\* step it has.
C11_LoopRunsThenEnds ==
  /\ []((pc = "loop" /\ (is_running = 0 \/ g_game_over = 1)) => ENABLED MainExit)
  /\ [][/\ (pc = "loop" /\ is_running = 1 /\ g_game_over = 0) => pc' = "update"
        /\ (pc = "update" /\ is_running = 0) =>
             (pc' = "loop" /\ n_ticks' = n_ticks + 1 /\ is_running' = 0)
        /\ (pc = "loop" /\ (is_running = 0 \/ g_game_over = 1)) =>
             (pc' = "exited" /\ n_ticks' = n_ticks /\ n_setups' = n_setups)]_vars

\* main has returned after a quit event, the game not being over
C11_Witness ==
  /\ pc = "exited"
  /\ init_ok = 1
  /\ is_running = 0
  /\ g_game_over = 0
  /\ n_ticks >= 2

\* C12: an update_game raises g_level and runs setup_level exactly when, at its
\* level completion check, no asteroid is alive and the game is not over; so
\* an update_game that leaves the game running leaves an asteroid alive.
C12_LevelUpIffPoolEmpty ==
  [][pc = "update" =>
       /\ \/ (g_level' = g_level + 1 /\ n_setups' = n_setups + 1)
          \/ (g_level' = g_level /\ n_setups' = n_setups)
       /\ g_level' = g_level => (AliveCount(g_asteroids') > 0 \/ g_game_over' = 1)
       /\ g_game_over' = 0 => AliveCount(g_asteroids') > 0]_vars

\* C13: one update_game takes at most one life: it processes at most one ship
\* hit, after which the ship is either respawned with the full invincibility
\* timer or dead with the game over.
C13_OneLifePerTick ==
  [][pc = "update" =>
       /\ g_lives' >= g_lives - 1
       /\ Len(ship_hits') <= 1
       /\ g_lives' = g_lives - Len(ship_hits')
       /\ ship_hits' # <<>> =>
            \/ (g_ship'.alive = 1 /\ g_ship'.invincible_timer = RESPAWN_INVINCIBILITY)
            \/ (g_ship'.alive = 0 /\ g_game_over' = 1)]_vars

\* an update_game has taken one life through one asteroid, and an asteroid in
\* a later slot lies on the respawned ship
C13_Witness ==
  /\ pc = "loop"
  /\ Len(ship_hits) = 1
  /\ g_ship.alive = 1
  /\ \E i \in Slots :
       /\ i > ship_hits[1].slot
       /\ g_asteroids[i].alive = 1
       /\ Overlaps(g_ship, g_asteroids[i])

\* C14: an active bullet has a lifetime in 1..60; an update_game takes exactly
\* 1 from the lifetime of every active bullet, deactivates the bullet whose
\* lifetime reaches 0, and leaves active every other bullet that hit nothing
\* and was not cleared by setup_level, whether it crossed a screen edge or not.
C14_BulletLifetime ==
  [][/\ \A j \in BSlots : g_bullets[j].active = 1 =>
          g_bullets[j].lifetime \in 1 .. BULLET_LIFETIME
     /\ \A j \in BSlots : g_bullets'[j].active = 1 =>
          g_bullets'[j].lifetime \in 1 .. BULLET_LIFETIME
     /\ pc = "update" =>
          \A j \in BSlots : g_bullets[j].active = 1 =>
            /\ g_bullets'[j].lifetime = g_bullets[j].lifetime - 1
            /\ g_bullets[j].lifetime = 1 => g_bullets'[j].active = 0
            /\ (/\ g_bullets[j].lifetime > 1
                /\ setup_log' = <<>>
                /\ \A k \in 1 .. Len(hits') : hits'[k].bullet # j) =>
                 g_bullets'[j].active = 1]_vars

\* a bullet fired upward from the centre has crossed the top edge and is in
\* its last tick, still active
C14_Witness ==
  /\ pc = "loop"
  /\ keys = {"space"}
  /\ \E j \in BSlots :
       /\ g_bullets[j].active = 1
       /\ g_bullets[j].lifetime = 1
       /\ g_bullets[j].y > H \div 2

\* ------------------------------------------- setup_level over all four edges
\* draws for every edge and side, and positions along the edge from its first
\* pixel to its last
WideDraws == {[edge |-> e, side |-> s, pos |-> p, vx |-> 100, vy |-> 0] :
                e \in {0, 1}, s \in {0, 1}, p \in {0, 399, 599, 799}}

\* A game at the head of the loop whose last asteroid was destroyed in the
\* iteration before, as in LevelInit, with the draws of rand() from WideDraws.
SetupInit ==
  /\ pc = "loop"
  /\ exit_code = -1
  /\ init_ok = 1
  /\ cleaned = FALSE
  /\ is_running = 1
  /\ g_ship = [CentreShip EXCEPT !.invincible_timer = 0]
  /\ g_bullets = [j \in BSlots |-> ZeroBullet]
  /\ g_asteroids = [i \in Slots |-> ZeroAsteroid]
  /\ g_level = 1
  /\ g_score = 60 * (g_level + 3)
  /\ g_lives = START_LIVES
  /\ g_game_over = 0
  /\ dt = 16
  /\ keys = {}
  /\ n_ticks = MaxTicks - LevelTicks
  /\ now = n_ticks * dt
  /\ last_shot = 0
  /\ rnd \in [0 .. (MaxDraws - 1) -> WideDraws]
  /\ rnd_i = 0
  /\ n_setups = g_level
  /\ fire_attempt = FALSE
  /\ fire_created = FALSE
  /\ last_created = -1
  /\ inv_start = 0
  /\ hits = <<>>
  /\ ship_hits = <<>>
  /\ spawn_log = <<>>
  /\ setup_log = <<>>
  /\ wrap_in = [x |-> 0, y |-> 0]
  /\ wrap_out = <<>>

SetupNext == HandleInput \/ UpdateGame

SetupSpec == SetupInit /\ [][SetupNext]_vars

\* a position on one of the four lines SHIP_SIZE*4 outside the screen
OnEdgeLine(a) ==
  \/ (a.x \in {0 - SPAWN_MARGIN, W + SPAWN_MARGIN} /\ 0 <= a.y /\ a.y < H)
  \/ (a.y \in {0 - SPAWN_MARGIN, H + SPAWN_MARGIN} /\ 0 <= a.x /\ a.x < W)

\* C15: every candidate position setup_level can draw lies on an edge line 80
\* outside the screen and is 200 or more from the ship at the centre, so the
\* do-while of setup_level accepts the first candidate for every asteroid.
C15_FirstCandidateAccepted ==
  /\ \A k \in DOMAIN rnd :
       /\ OnEdgeLine(Candidate(rnd[k]))
       /\ ~Rejected(Candidate(rnd[k]), CentreShip)
  /\ setup_log # <<>> =>
       /\ setup_log[1].retries = 0
       /\ Len(spawn_log) = g_level + 3
       /\ \A i \in Slots : g_asteroids[i].alive = 1 => OnEdgeLine(g_asteroids[i])

\* setup_level has just placed asteroids on the right edge and on the bottom
\* edge, each at the first candidate
C15_Witness ==
  /\ setup_log # <<>>
  /\ setup_log[1].retries = 0
  /\ \E i \in Slots : g_asteroids[i].alive = 1 /\ g_asteroids[i].x = W + SPAWN_MARGIN
  /\ \E i \in Slots : g_asteroids[i].alive = 1 /\ g_asteroids[i].y = H + SPAWN_MARGIN

\* C16: between iterations the ship is alive exactly when the game is not
\* over; an update_game that takes a life and leaves one respawns the ship at
\* the centre with zero velocity, heading -90 and the full invincibility timer.
C16_ShipAliveIffRunning ==
  /\ [](pc = "loop" => (g_ship.alive = 1 <=> g_game_over = 0))
  /\ [][(pc = "update" /\ ship_hits' # <<>> /\ g_lives' > 0) =>
          /\ g_ship'.alive = 1
          /\ g_ship'.x = W \div 2 /\ g_ship'.y = H \div 2
          /\ g_ship'.vx = 0 /\ g_ship'.vy = 0
          /\ g_ship'.angle = -90
          /\ g_ship'.invincible_timer = RESPAWN_INVINCIBILITY
          /\ g_game_over' = 0]_vars

\* an update_game has taken the first life of a ship that had turned away from
\* its first heading, and has respawned it
C16_Witness ==
  /\ pc = "loop"
  /\ ship_hits # <<>>
  /\ "right" \in keys
  /\ g_lives = START_LIVES - 1
  /\ g_game_over = 0
  /\ g_ship = CentreShip

\* C17: every alive asteroid has size 1, 2 or 3; a spawn_asteroid that takes a
\* slot was asked for a size of 1 or more, and one asked for less takes no
\* slot and changes none.
C17_SizesOneToThree ==
  /\ \A i \in Slots : g_asteroids[i].alive = 1 => g_asteroids[i].size \in 1 .. 3
  /\ \A k \in 1 .. Len(spawn_log) :
       /\ spawn_log[k].slot >= 0 => spawn_log[k].size >= 1
       /\ spawn_log[k].size < 1 => (spawn_log[k].slot = -1 /\ ~spawn_log[k].changed)

\* an update_game has called spawn_asteroid for size 0, with free slots in the
\* pool, and no slot was taken
C17_Witness ==
  \E k \in 1 .. Len(spawn_log) :
    /\ spawn_log[k].size = 0
    /\ ~spawn_log[k].full
    /\ spawn_log[k].slot = -1
    /\ ~spawn_log[k].changed

\* C18: the ship loses a life only through an asteroid that is alive at the
\* moment of the ship test: every ship hit of an update_game is through a slot
\* whose asteroid is alive when the test runs, never one a bullet destroyed
\* earlier in the same visit.
C18_HitOnlyByAliveAsteroid ==
  \A k \in 1 .. Len(ship_hits) : ship_hits[k].alive = 1

C20_LevelTransitionFrame ==
  [][(pc = "update" /\ g_level' # g_level) =>
       /\ g_level' = g_level + 1
       /\ n_setups' = n_setups + 1
       /\ g_score' = g_score
       /\ g_lives' = g_lives
       /\ g_game_over' = g_game_over
       /\ is_running' = is_running
       /\ last_shot' = last_shot
       /\ g_ship' = [x |-> W \div 2, y |-> H \div 2, vx |-> 0, vy |-> 0, angle |-> -90,
                     alive |-> 1, invincible_timer |-> RESPAWN_INVINCIBILITY]
       /\ \A j \in BSlots : g_bullets'[j] = [bullet_step(g_bullets[j]) EXCEPT !.active = 0]
       /\ \A i \in Slots :
            \/ g_asteroids'[i].alive = 1 /\ g_asteroids'[i].size = 3
                 /\ \E k \in 1 .. Len(spawn_log') : spawn_log'[k].slot = i
            \/ g_asteroids'[i] = [g_asteroids[i] EXCEPT !.alive = 0]]_vars

\* a level has been cleared with points scored, a life lost and a bullet still
\* in flight, and update_game has set up level 2
C20_Witness ==
  /\ pc = "loop"
  /\ setup_log # <<>>
  /\ g_level = 2
  /\ g_score > 0
  /\ g_lives < START_LIVES
  /\ \E j \in BSlots : g_bullets[j].active = 0 /\ g_bullets[j].lifetime > 0
=============================================================================
